---- MODULE Spec2Model ----
(***************************************************************************)
(* Model of chartink_webhook_server.py: the Flask webhook endpoint, the    *)
(* alert normalizer (extract_stocks_from_alert), the workbook writer       *)
(* (add_stocks_to_excel, get_next_iteration_number) and the Google Drive   *)
(* uploader (GoogleDriveHandler).                                          *)
(*                                                                         *)
(* Python strings are sequences of one-character strings, so that          *)
(* strip/upper/replace/split/int()/f-string formatting are computed, not   *)
(* assumed.  The workbook file is a record [exists, corrupt, sheets]; a    *)
(* sheet is [name, header, rows].  Of the ten columns of a data row the    *)
(* model keeps Sr_No, Stock_Symbol, Trigger_Price and Iteration; the other *)
(* six are copies of alert metadata and of the wall clock.                 *)
(***************************************************************************)
EXTENDS Integers, Sequences, FiniteSets, TLC

VARIABLES
    disk,               \* the file Chartink_Workflow.xlsx
    current_iteration,  \* ChartinkWebhookHandler.current_iteration
    service,            \* GoogleDriveHandler.service is not None
    folder_id,          \* GoogleDriveHandler.folder_id ("None" or an id)
    remote,             \* the Drive account: [folder, files]
    resp,               \* the HTTP response of the last /webhook request
    last,               \* where the last /webhook request went in the code
    handled,            \* number of /webhook requests handled so far
    restarts,           \* number of process restarts so far
    start,              \* current_iteration as set by __init__ of this process
    nsucc,              \* successful alerts of this process
    boot,               \* what get_next_iteration_number saw in __init__
    pc,                 \* interleaved requests: position of each request
    loc,                \* interleaved requests: locals of each request
    inp,                \* normalizer runs: the text of the stocks field
    out                 \* normalizer runs: [done, stocks]

vars == <<disk, current_iteration, service, folder_id, remote, resp, last,
          handled, restarts, start, nsucc, boot, pc, loc, inp, out>>

serverVars == <<disk, current_iteration, service, folder_id, remote, resp,
                last, handled, restarts, start, nsucc, boot>>

(***************************************************************************)
(* Bounds of the model.                                                    *)
(***************************************************************************)
MaxAlerts == 3
MaxRestarts == 1
MaxLen == 6
MaxPayloadAlerts == 2

(***************************************************************************)
(* Python str operations on sequences of characters.                       *)
(***************************************************************************)
LowerCase == <<"a","b","c","d","e","f","g","h","i","j","k","l","m",
               "n","o","p","q","r","s","t","u","v","w","x","y","z">>
UpperCase == <<"A","B","C","D","E","F","G","H","I","J","K","L","M",
               "N","O","P","Q","R","S","T","U","V","W","X","Y","Z">>
DigitChars == <<"0","1","2","3","4","5","6","7","8","9">>
Whitespace == {" ", "\t", "\n"}

IsLower(c) == \E i \in 1..26 : LowerCase[i] = c

UpperChar(c) ==
    IF IsLower(c) THEN UpperCase[CHOOSE i \in 1..26 : LowerCase[i] = c] ELSE c

\* str.upper()
Upper(s) == [i \in 1..Len(s) |-> UpperChar(s[i])]

RECURSIVE LStrip(_)
LStrip(s) ==
    IF s # <<>> /\ s[1] \in Whitespace THEN LStrip(Tail(s)) ELSE s

RECURSIVE RStrip(_)
RStrip(s) ==
    IF s # <<>> /\ s[Len(s)] \in Whitespace
    THEN RStrip(SubSeq(s, 1, Len(s) - 1)) ELSE s

\* str.strip()
Strip(s) == RStrip(LStrip(s))

\* str.startswith(p)
StartsWith(s, p) == Len(s) >= Len(p) /\ SubSeq(s, 1, Len(p)) = p

\* p in s
RECURSIVE Contains(_, _)
Contains(s, p) ==
    IF Len(s) < Len(p) THEN FALSE
    ELSE StartsWith(s, p) \/ Contains(Tail(s), p)

\* str.replace(old, ""): one left-to-right pass over non-overlapping matches
RECURSIVE ReplaceScan(_, _)
ReplaceScan(s, old) ==
    IF Len(s) < Len(old) THEN s
    ELSE IF StartsWith(s, old)
         THEN ReplaceScan(SubSeq(s, Len(old) + 1, Len(s)), old)
         ELSE <<s[1]>> \o ReplaceScan(Tail(s), old)

\* str.replace(old, "")
Replace(s, old) == ReplaceScan(s, old)

\* str.split(sep) for a one-character sep
RECURSIVE Split(_, _)
Split(s, sep) ==
    IF \E i \in 1..Len(s) : s[i] = sep
    THEN LET k == CHOOSE i \in 1..Len(s) :
                     s[i] = sep /\ \A j \in 1..(i - 1) : s[j] # sep
         IN  <<SubSeq(s, 1, k - 1)>> \o Split(SubSeq(s, k + 1, Len(s)), sep)
    ELSE <<s>>

IsDigit(c) == \E i \in 1..10 : DigitChars[i] = c
DigitVal(c) == (CHOOSE i \in 1..10 : DigitChars[i] = c) - 1

RECURSIVE DigitsValue(_)
DigitsValue(s) ==
    IF s = <<>> THEN 0
    ELSE 10 * DigitsValue(SubSeq(s, 1, Len(s) - 1)) + DigitVal(s[Len(s)])

AllDigits(s) == s # <<>> /\ \A i \in 1..Len(s) : IsDigit(s[i])

\* int(s) and, on the digit strings of the model, float(s):
\* [ok |-> FALSE] stands for ValueError
ParseNumber(s) ==
    LET t == Strip(s)
        signed == t # <<>> /\ t[1] \in {"-", "+"}
        body == IF signed THEN Tail(t) ELSE t
    IN  IF AllDigits(body)
        THEN [ok |-> TRUE,
              val |-> IF signed /\ t[1] = "-" THEN 0 - DigitsValue(body)
                      ELSE DigitsValue(body)]
        ELSE [ok |-> FALSE, val |-> 0]

RECURSIVE NatToStr(_)
NatToStr(n) ==
    IF n < 10 THEN <<DigitChars[n + 1]>>
    ELSE NatToStr(n \div 10) \o <<DigitChars[(n % 10) + 1]>>

\* str(n) of an int, as the f-string formats it
ToStr(n) == IF n < 0 THEN <<"-">> \o NatToStr(0 - n) ELSE NatToStr(n)

(***************************************************************************)
(* Alert Normalizer.                                                       *)
(***************************************************************************)
NSE_PREFIX == <<"N","S","E",":">>
NS_SUFFIX == <<".","N","S">>
MaxSymbolLen == 20

\* JSON values of the payload: t is the JSON type; s the text of a string;
\* l the elements of a list, or the keys of an object, each [t, s]
VStr(s) == [t |-> "str", s |-> s, l |-> <<>>]
VList(l) == [t |-> "list", s |-> <<>>, l |-> l]
VMap(keys) == [t |-> "map", s |-> <<>>, l |-> keys]
VNum == [t |-> "num", s |-> <<>>, l |-> <<>>]
VNull == [t |-> "null", s |-> <<>>, l |-> <<>>]
VBool == [t |-> "bool", s |-> <<>>, l |-> <<>>]
Absent == [t |-> "absent", s |-> <<>>, l |-> <<>>]
EStr(s) == [t |-> "str", s |-> s]
ENum == [t |-> "num", s |-> <<>>]

\* line 193
CleanSymbol(s) == Replace(Replace(Upper(Strip(s)), NSE_PREFIX), NS_SUFFIX)

\* line 194
KeepSymbol(c) == c # <<>> /\ Len(c) <= MaxSymbolLen

\* lines 190-199: the loop over the elements
RECURSIVE CleanLoop(_)
CleanLoop(elems) ==
    IF elems = <<>> THEN <<>>
    ELSE LET e == elems[1]
             c == CleanSymbol(e.s)
         IN  (IF e.t = "str" /\ KeepSymbol(c) THEN <<c>> ELSE <<>>)
             \o CleanLoop(Tail(elems))

\* line 181: [s.strip() for s in text.split(",")]
SplitStocks(text) ==
    LET parts == Split(text, ",")
    IN  [i \in 1..Len(parts) |-> EStr(Strip(parts[i]))]

\* what `for stock in stocks` iterates over; iterable FALSE is the TypeError
\* that the except clause of line 200 turns into []
Iterate(v) ==
    IF v.t \in {"list", "map"} THEN [iterable |-> TRUE, elems |-> v.l]
    ELSE [iterable |-> FALSE, elems |-> <<>>]

\* lines 175-202
extract_stocks_from_alert(alert) ==
    IF alert.dict /\ alert.stocks.t # "absent"
    THEN IF alert.stocks.t = "str"
         THEN CleanLoop(SplitStocks(alert.stocks.s))
         ELSE LET it == Iterate(alert.stocks)
              IN  IF it.iterable THEN CleanLoop(it.elems) ELSE <<>>
    ELSE <<>>

(***************************************************************************)
(* Workbook Writer.                                                        *)
(***************************************************************************)
MASTER_LIST == <<"M","a","s","t","e","r","_","L","i","s","t">>
TV_EXPORT == <<"T","r","a","d","i","n","g","V","i","e","w","_",
               "E","x","p","o","r","t">>
ITERATION_ == <<"I","t","e","r","a","t","i","o","n","_">>

MasterHeaders == <<"Stock_Symbol", "First_Appearance_Date", "First_Iteration",
                   "Total_Appearances", "Last_Updated">>
TvHeaders == <<"TradingView_Symbols">>
RowHeaders == <<"Sr_No", "Stock_Symbol", "Trigger_Price", "Scan_Name",
                "Alert_Name", "Triggered_At", "Date_Added", "Iteration",
                "Alert_Time", "Scan_URL">>

NoFile == [exists |-> FALSE, corrupt |-> FALSE, sheets |-> <<>>]
File(sheets) == [exists |-> TRUE, corrupt |-> FALSE, sheets |-> sheets]
CorruptFile == [exists |-> TRUE, corrupt |-> TRUE, sheets |-> <<>>]

\* workbook.sheetnames
sheetnames(wb) == [i \in 1..Len(wb) |-> wb[i].name]

\* f"Iteration_{n}", line 249
IterationName(n) == ITERATION_ \o ToStr(n)

\* line 135
IsIterationSheet(name) == StartsWith(name, ITERATION_)

\* lines 141-144: int(sheet.split('_')[1]); ok FALSE is the ValueError
SheetNumber(name) == ParseNumber(Split(name, "_")[2])

SetMax(S) == CHOOSE m \in S : \A x \in S : x <= m

\* variant: the Iteration sheets are counted instead of their numbers read
NextByCount(names) == Len(SelectSeq(names, IsIterationSheet)) + 1

\* lines 135-145 on the sheet names of a loaded workbook
NextFromNames(names) ==
    LET iteration_sheets == SelectSeq(names, IsIterationSheet)
        numbers == {SheetNumber(iteration_sheets[i]).val :
                      i \in {j \in 1..Len(iteration_sheets) :
                               SheetNumber(iteration_sheets[j]).ok}}
    IN  IF iteration_sheets = <<>> THEN 1
        ELSE IF numbers = {} THEN 1 ELSE SetMax(numbers) + 1

\* load_workbook(file): raises on an unreadable file, or when the
\* environment fails the read (load_ok FALSE)
LoadRaises(d, load_ok) == d.corrupt \/ ~load_ok

\* lines 127-148
get_next_iteration_number(d, load_ok) ==
    IF ~d.exists THEN 1
    ELSE IF LoadRaises(d, load_ok) THEN 1
    ELSE NextFromNames(sheetnames(d.sheets))

\* lines 207-212: the parsed trigger_prices list
ParsePrices(alert) ==
    IF alert.trigger_prices.t = "str"
    THEN LET parts == Split(alert.trigger_prices.s, ",")
             nums == [i \in 1..Len(parts) |-> ParseNumber(parts[i])]
         IN  IF \A i \in 1..Len(parts) : nums[i].ok
             THEN [i \in 1..Len(parts) |-> nums[i].val]
             ELSE <<>>
    ELSE <<>>

\* variant: the 1-based i is used as the 0-based index
TriggerPriceOffByOne(trigger_prices, i) ==
    IF i < Len(trigger_prices) THEN trigger_prices[i + 1] ELSE 0

\* line 216: i counts from 1 as enumerate(stocks, 1) does
TriggerPriceAt(trigger_prices, i) ==
    IF i - 1 < Len(trigger_prices) THEN trigger_prices[(i - 1) + 1] ELSE 0

\* lines 214-229
BuildRows(stocks, trigger_prices, cur) ==
        [i \in 1..Len(stocks) |->
            [Sr_No |-> i,
             Stock_Symbol |-> stocks[i],
             Trigger_Price |-> TriggerPriceAt(trigger_prices, i),
             Iteration |-> cur]]

\* lines 236-245
NewWorkbook ==
    << [name |-> MASTER_LIST, header |-> MasterHeaders, rows |-> <<>>],
       [name |-> TV_EXPORT, header |-> TvHeaders, rows |-> <<>>] >>

\* variant: an existing sheet of the name is left in place
KeepSheet(wb, name) == wb

\* lines 250-251
RemoveSheet(wb, name) ==
    IF \E i \in 1..Len(wb) : wb[i].name = name
    THEN SelectSeq(wb, LAMBDA sh : sh.name # name)
    ELSE wb

\* lines 249-255
WriteIterationSheet(wb, cur, rows) ==
    LET sheet_name == IterationName(cur)
    IN  Append(RemoveSheet(wb, sheet_name),
               [name |-> sheet_name, header |-> RowHeaders, rows |-> rows])

\* workbook.save(file): outcome "ok" writes the whole workbook; a failing
\* save leaves the file as it was ("unchanged") or unreadable ("corrupt")
SaveOutcomes == {"ok", "unchanged", "corrupt"}
SaveFile(d, wb, outcome) ==
    CASE outcome = "ok" -> File(wb)
      [] outcome = "unchanged" -> d
      [] OTHER -> CorruptFile

\* variant: the counter is not incremented
ForgetIncrement(cur) == cur

\* line 262
Increment(cur) == cur + 1

\* variant: the result carries the counter after the increment
SameIteration(cur) == cur

\* line 268
ResultIteration(cur) == cur - 1

(***************************************************************************)
(* The requests the model sends.                                           *)
(***************************************************************************)
TCS == <<"T","C","S">>
INFY == <<"I","N","F","Y">>
SBIN == <<"S","B","I","N">>
Long21 == <<"A","B","C","D","E","F","G","H","I","J","K","L","M","N","O",
            "P","Q","R","S","T","U">>

Alert(stocks, trigger_prices) ==
    [dict |-> TRUE, stocks |-> stocks, trigger_prices |-> trigger_prices]

\* {"stocks": "NSE:TCS, INFY.NS", "trigger_prices": "3500,1500"}
ExampleAlert ==
    Alert(VStr(<<"N","S","E",":","T","C","S",","," ","I","N","F","Y",".",
                 "N","S">>),
          VStr(<<"3","5","0","0",",","1","5","0","0">>))

\* {"stocks": ["nse:tcs", 7, " ", "infy.ns", "sbin"], "trigger_prices": "3500, 1500"}
ListAlert ==
    Alert(VList(<<EStr(<<"n","s","e",":","t","c","s">>), ENum, EStr(<<" ">>),
                  EStr(<<"i","n","f","y",".","n","s">>),
                  EStr(<<"s","b","i","n">>)>>),
          VStr(<<"3","5","0","0",","," ","1","5","0","0">>))

\* {"stocks": "<21 letters>,tcs", "trigger_prices": "7,9,11"}
LongAlert ==
    Alert(VStr(Long21 \o <<",","t","c","s">>),
          VStr(<<"7",",","9",",","1","1">>))

\* {"stocks": "TCS,INFY", "trigger_prices": "3500,x"}
BadPriceAlert ==
    Alert(VStr(TCS \o <<",">> \o INFY), VStr(<<"3","5","0","0",",","x">>))

\* {"stocks": ["TCS"], "trigger_prices": [3500]}
PriceListAlert ==
    Alert(VList(<<EStr(TCS)>>), VList(<<ENum>>))

\* {"stocks": {"tcs": 3500}}
MapAlert == Alert(VMap(<<EStr(<<"t","c","s">>)>>), Absent)

\* {"stocks": " , "}
BlankAlert == Alert(VStr(<<" ",","," ">>), Absent)

Payload(id) ==
    CASE id = "example" -> ExampleAlert
      [] id = "list" -> ListAlert
      [] id = "long" -> LongAlert
      [] id = "badprice" -> BadPriceAlert
      [] id = "pricelist" -> PriceListAlert
      [] id = "map" -> MapAlert
      [] id = "blank" -> BlankAlert
      [] id = "number" -> Alert(VNum, Absent)
      [] id = "null" -> Alert(VNull, Absent)
      [] id = "bool" -> Alert(VBool, Absent)
      [] id = "missing" -> Alert(Absent, Absent)
      [] OTHER -> [dict |-> FALSE, stocks |-> Absent,
                   trigger_prices |-> Absent]

PayloadIds == {"example", "list", "long", "badprice", "pricelist", "map",
               "blank", "number", "null", "bool", "missing", "nondict"}

\* the requests: an empty body, a body get_json() rejects, or a payload
RequestsOf(ids) ==
    {[body |-> "empty", payload |-> "none"],
     [body |-> "malformed", payload |-> "none"]}
    \cup {[body |-> "json", payload |-> id] : id \in ids}

\* the pure functions of the payload, tabulated over the payloads sent
ExtractedStocks ==
    [id \in PayloadIds \cup {"none"} |->
        extract_stocks_from_alert(Payload(id))]
ParsedPrices ==
    [id \in PayloadIds \cup {"none"} |-> ParsePrices(Payload(id))]

(***************************************************************************)
(* Storage Uploader.  A remote call that fails raises; fail names the call *)
(* the environment fails.  raised TRUE is an exception leaving the method. *)
(***************************************************************************)
FOLDER == "F"
FreshRemote == [folder |-> FALSE, files |-> {}]

\* what a method leaves: its return value, the fields, the account, whether
\* an exception leaves it, and the methods an exception has left so far
DriveRet(ret, fid, rem, raised, escaped) ==
    [ret |-> ret, folder_id |-> fid, remote |-> rem, raised |-> raised,
     escaped |-> escaped]

Leaves(r, method) ==
    IF r.raised THEN [r EXCEPT !.escaped = @ \cup {method}] ELSE r

\* lines 68-70 and 116-118: except Exception: return None
ReturnNoneOnException(r) ==
    IF r.raised THEN [r EXCEPT !.ret = "None", !.raised = FALSE] ELSE r

\* variant: the exception is not caught
ReraiseException(r) == r

\* lines 46-67, the body of the try
create_or_get_folder_body(svc, fid, rem, fail) ==
    IF ~svc THEN DriveRet("None", fid, rem, FALSE, {})
    ELSE IF fail = "list" THEN DriveRet("None", fid, rem, TRUE, {})
    ELSE IF rem.folder THEN DriveRet(FOLDER, FOLDER, rem, FALSE, {})
    ELSE IF fail = "create" THEN DriveRet("None", fid, rem, TRUE, {})
    ELSE DriveRet(FOLDER, FOLDER, [rem EXCEPT !.folder = TRUE], FALSE, {})

FolderHandler(r) == ReturnNoneOnException(r)

\* lines 43-70
create_or_get_folder(svc, fid, rem, fail) ==
    Leaves(FolderHandler(create_or_get_folder_body(svc, fid, rem, fail)),
           "create_or_get_folder")

\* lines 75-115, the body of the try
upload_file_body(svc, fid, rem, folder_fail, file_fail) ==
    IF ~svc THEN DriveRet("None", fid, rem, FALSE, {})
    ELSE LET f == IF fid = "None"
                  THEN create_or_get_folder(svc, fid, rem, folder_fail)
                  ELSE DriveRet(fid, fid, rem, FALSE, {})
             where == IF f.folder_id = "None" THEN "root" ELSE "folder"
             existing_files == f.folder_id # "None"
                               /\ "folder" \in f.remote.files
         IN  IF f.raised \/ file_fail \in {"list", "write"}
             THEN DriveRet("None", f.folder_id, f.remote, TRUE, f.escaped)
             ELSE IF existing_files
                  THEN DriveRet("id", f.folder_id, f.remote, FALSE, f.escaped)
             ELSE DriveRet("id", f.folder_id,
                      [f.remote EXCEPT !.files = @ \cup {where}], FALSE,
                      f.escaped)

UploadHandler(r) == ReturnNoneOnException(r)

\* lines 72-118
upload_file(svc, fid, rem, folder_fail, file_fail) ==
    Leaves(UploadHandler(upload_file_body(svc, fid, rem, folder_fail,
                                          file_fail)),
           "upload_file")

(***************************************************************************)
(* add_stocks_to_excel, process_chartink_alert and the endpoint.           *)
(***************************************************************************)
Outcome(status, msg, stocks, iteration, d, cur, fid, rem, stage, wrote, removed, upload, escaped) ==
    [status |-> status, message |-> msg, stocks |-> stocks,
     iteration |-> iteration, disk |-> d, cur |-> cur, folder_id |-> fid,
     remote |-> rem, stage |-> stage, wrote |-> wrote, removed |-> removed,
     upload |-> upload, escaped |-> escaped]

\* lines 204-272; alert names the payload, env holds what the environment
\* decides during the call
add_stocks_to_excel(stocks, alert, d, cur, svc, fid, rem, env) ==
    LET rows == BuildRows(stocks, ParsedPrices[alert], cur)
        fresh == ~d.exists
        open_raises == IF fresh THEN env.save_base # "ok"
                       ELSE LoadRaises(d, env.load_ok)
        d1 == IF fresh THEN SaveFile(d, NewWorkbook, env.save_base) ELSE d
        workbook == IF fresh THEN NewWorkbook ELSE d.sheets
        removed == \E i \in 1..Len(workbook) :
                      workbook[i].name = IterationName(cur)
        d2 == SaveFile(d1, WriteIterationSheet(workbook, cur, rows), env.save)
        up == IF svc
              THEN upload_file(svc, fid, rem, env.folder_fail, env.file_fail)
              ELSE DriveRet("skipped", fid, rem, FALSE, {})
        upload == IF ~svc THEN "skipped"
                  ELSE IF up.raised THEN "raised"
                  ELSE IF up.ret = "None" THEN "failed" ELSE "uploaded"
        cur2 == Increment(cur)
    IN  IF open_raises
        THEN Outcome("error", "exception", <<>>, 0, d1, cur, fid, rem,
                     IF fresh THEN "create_failed" ELSE "load_failed",
                     FALSE, FALSE, "none", {})
        ELSE IF env.save # "ok"
        THEN Outcome("error", "exception", <<>>, 0, d2, cur, fid, rem,
                     "save_failed", FALSE, removed, "none", {})
        ELSE IF up.raised
        THEN Outcome("error", "exception", <<>>, 0, d2, cur, up.folder_id,
                     up.remote, "upload_raised", TRUE, removed, upload,
                     up.escaped)
        ELSE Outcome("success", "Added", stocks, ResultIteration(cur2), d2,
                     cur2, up.folder_id, up.remote, "done", TRUE, removed,
                     upload, up.escaped)

\* lines 150-173
process_chartink_alert(alert, d, cur, svc, fid, rem, env) ==
    LET stocks == ExtractedStocks[alert]
    IN  IF stocks = <<>>
        THEN Outcome("error", "No stocks found in alert", <<>>, 0, d, cur,
                     fid, rem, "no_stocks", FALSE, FALSE, "none", {})
        ELSE add_stocks_to_excel(stocks, alert, d, cur, svc, fid, rem, env)

\* variant: every result is answered 200
AlwaysOk(status) == 200

\* line 292
StatusCode(status) == IF status = "success" THEN 200 ELSE 400

\* lines 277-298; body: "empty" (get_json() and the form give nothing),
\* "malformed" (get_json() raises), "json" (a payload)
chartink_webhook(body, alert, d, cur, svc, fid, rem, env) ==
    IF body = "malformed"
    THEN [code |-> 500,
          r |-> Outcome("error", "exception", <<>>, 0, d, cur, fid, rem,
                        "escaped", FALSE, FALSE, "none", {})]
    ELSE IF body = "empty"
    THEN [code |-> 400,
          r |-> Outcome("error", "No data received", <<>>, 0, d, cur, fid,
                        rem, "no_data", FALSE, FALSE, "none", {})]
    ELSE LET r == process_chartink_alert(alert, d, cur, svc, fid, rem, env)
         IN  [code |-> StatusCode(r.status), r |-> r]

(***************************************************************************)
(* The environment and the initial states.                                 *)
(***************************************************************************)
\* what the environment can decide during one request, given the state
EnvFor(d, svc, fid) ==
    [load_ok : IF d.exists /\ ~d.corrupt THEN BOOLEAN ELSE {TRUE},
     save_base : IF d.exists THEN {"ok"} ELSE SaveOutcomes,
     save : SaveOutcomes,
     folder_fail : IF svc /\ fid = "None" THEN {"none", "list", "create"}
                   ELSE {"none"},
     file_fail : IF svc THEN {"none", "list", "write"} ELSE {"none"}]

SampleRows(n) ==
    <<[Sr_No |-> 1, Stock_Symbol |-> SBIN, Trigger_Price |-> 0,
       Iteration |-> n]>>

\* a workbook left by an earlier process that handled two alerts
TwoIterations ==
    File(WriteIterationSheet(
            WriteIterationSheet(NewWorkbook, 1, SampleRows(1)),
            2, SampleRows(2)))

InitialDisks == {NoFile, TwoIterations}

NoResponse ==
    [code |-> 0, status |-> "none", message |-> "none", stocks |-> <<>>,
     iteration |-> 0]
NoRequest ==
    [body |-> "none", payload |-> "none", stage |-> "none", wrote |-> FALSE,
     removed |-> FALSE, upload |-> "none", escaped |-> {}, before |-> 0]

BootKind(d, load_ok) ==
    IF ~d.exists THEN "nofile"
    ELSE IF LoadRaises(d, load_ok) THEN "loadfail" ELSE "loaded"

\* the two requests in flight at once
Reqs == {"a", "b"}

NoLocals ==
    [payload |-> "none", stocks |-> <<>>, it |-> 0, wb |-> <<>>,
     sheet |-> 0, tmp |-> 0, status |-> "none", iteration |-> 0]

IdlePc == [r \in Reqs |-> "idle"]
IdleLoc == [r \in Reqs |-> NoLocals]

(***************************************************************************)
(* One process, requests handled one at a time, with restarts.             *)
(***************************************************************************)
\* lines 17-21 and 121-125: the state __init__ leaves
Construct(d, svc, load_ok) ==
    /\ service' = svc
    /\ folder_id' = "None"
    /\ current_iteration' = get_next_iteration_number(d, load_ok)
    /\ start' = get_next_iteration_number(d, load_ok)
    /\ boot' = BootKind(d, load_ok)
    /\ nsucc' = 0
    /\ resp' = NoResponse
    /\ last' = NoRequest

Init ==
    /\ disk \in InitialDisks
    /\ remote = FreshRemote
    /\ \E svc \in BOOLEAN, load_ok \in BOOLEAN :
          /\ service = svc
          /\ folder_id = "None"
          /\ current_iteration = get_next_iteration_number(disk, load_ok)
          /\ start = get_next_iteration_number(disk, load_ok)
          /\ boot = BootKind(disk, load_ok)
    /\ nsucc = 0
    /\ resp = NoResponse
    /\ last = NoRequest
    /\ handled = 0
    /\ restarts = 0
    /\ pc = IdlePc
    /\ loc = IdleLoc
    /\ inp = <<>>
    /\ out = [done |-> FALSE, stocks |-> <<>>]

\* POST /webhook, handled to completion
WebhookFrom(ids, bound) ==
    /\ handled < bound
    /\ \E req \in RequestsOf(ids), env \in EnvFor(disk, service, folder_id) :
       \E w \in {chartink_webhook(req.body, req.payload, disk,
                                   current_iteration, service, folder_id,
                                   remote, env)} :
              /\ disk' = w.r.disk
              /\ current_iteration' = w.r.cur
              /\ folder_id' = w.r.folder_id
              /\ remote' = w.r.remote
              /\ resp' = [code |-> w.code, status |-> w.r.status,
                          message |-> w.r.message, stocks |-> w.r.stocks,
                          iteration |-> w.r.iteration]
              /\ last' = [body |-> req.body, payload |-> req.payload,
                          stage |-> w.r.stage, wrote |-> w.r.wrote,
                          removed |-> w.r.removed, upload |-> w.r.upload,
                          escaped |-> w.r.escaped,
                          before |-> current_iteration]
              /\ nsucc' = IF w.r.status = "success" THEN nsucc + 1 ELSE nsucc
    /\ handled' = handled + 1
    /\ UNCHANGED <<service, restarts, start, boot, pc, loc, inp, out>>

\* the process is stopped and started again: __init__ runs on the file
Restart ==
    /\ restarts < MaxRestarts
    /\ \E svc \in BOOLEAN,
          load_ok \in (IF disk.exists /\ ~disk.corrupt THEN BOOLEAN
                       ELSE {TRUE}) :
          Construct(disk, svc, load_ok)
    /\ restarts' = restarts + 1
    /\ UNCHANGED <<disk, remote, handled, pc, loc, inp, out>>

CoreIds == {"example", "list", "blank"}

Webhook == WebhookFrom(CoreIds, MaxAlerts)

Next == Webhook \/ Restart

Spec == Init /\ [][Next]_vars

(***************************************************************************)
(* The same process receiving every payload shape of PayloadIds.           *)
(***************************************************************************)
WebhookAll == WebhookFrom(PayloadIds, MaxPayloadAlerts)

NextAlerts == WebhookAll

SpecAlerts == Init /\ [][NextAlerts]_vars

(***************************************************************************)
(* __init__ run on workbooks with sheets of any of the names of PoolNames. *)
(***************************************************************************)
PoolNames ==
    <<MASTER_LIST, IterationName(1), IterationName(2), IterationName(3),
      IterationName(4), IterationName(5),
      ITERATION_ \o <<"a","b","c">>,
      ITERATION_ \o <<"7","_","x">>,
      ITERATION_ \o <<"-","3">>>>

RECURSIVE PickSheets(_, _)
PickSheets(i, S) ==
    IF i > Len(PoolNames) THEN <<>>
    ELSE (IF i \in S
          THEN <<[name |-> PoolNames[i], header |-> RowHeaders,
                  rows |-> <<>>]>>
          ELSE <<>>) \o PickSheets(i + 1, S)

BootDisks ==
    {NoFile} \cup {File(PickSheets(1, S)) : S \in SUBSET (1..Len(PoolNames))}

InitBoot ==
    /\ disk \in BootDisks
    /\ remote = FreshRemote
    /\ service = FALSE
    /\ folder_id = "None"
    /\ current_iteration = 0
    /\ start = 0
    /\ boot = "none"
    /\ nsucc = 0
    /\ resp = NoResponse
    /\ last = NoRequest
    /\ handled = 0
    /\ restarts = 0
    /\ pc = IdlePc
    /\ loc = IdleLoc
    /\ inp = <<>>
    /\ out = [done |-> FALSE, stocks |-> <<>>]

\* the process starts: lines 121-125
Boot ==
    /\ boot = "none"
    /\ \E svc \in BOOLEAN, load_ok \in BOOLEAN :
          Construct(disk, svc, load_ok)
    /\ UNCHANGED <<disk, remote, handled, restarts, pc, loc, inp, out>>

NextBoot == Boot

SpecBoot == InitBoot /\ [][NextBoot]_vars

(***************************************************************************)
(* extract_stocks_from_alert run on every text over Alphabet of at most    *)
(* MaxLen characters, sent as the stocks field.                            *)
(***************************************************************************)
Alphabet == {"N", "S", "E", ":", ".", "s"}

InitClean ==
    /\ disk = NoFile
    /\ remote = FreshRemote
    /\ service = FALSE
    /\ folder_id = "None"
    /\ current_iteration = 1
    /\ start = 1
    /\ boot = "nofile"
    /\ nsucc = 0
    /\ resp = NoResponse
    /\ last = NoRequest
    /\ handled = 0
    /\ restarts = 0
    /\ pc = IdlePc
    /\ loc = IdleLoc
    /\ inp = <<>>
    /\ out = [done |-> FALSE, stocks |-> <<>>]

\* the sender writes one more character of the stocks field
Type ==
    /\ ~out.done
    /\ Len(inp) < MaxLen
    /\ \E c \in Alphabet : inp' = Append(inp, c)
    /\ UNCHANGED <<serverVars, pc, loc, out>>

\* the normalizer runs on {"stocks": inp}
Extract ==
    /\ ~out.done
    /\ out' = [done |-> TRUE,
               stocks |-> extract_stocks_from_alert(Alert(VStr(inp), Absent))]
    /\ UNCHANGED <<serverVars, pc, loc, inp>>

NextClean == Type \/ Extract

SpecClean == InitClean /\ [][NextClean]_vars

(***************************************************************************)
(* Two /webhook requests handled by two threads of one process: each line  *)
(* of add_stocks_to_excel that reads or writes the file or the counter is  *)
(* a step of its own.                                                      *)
(***************************************************************************)
ConcIds == {"example", "list"}

InitConc ==
    /\ disk \in InitialDisks
    /\ remote = FreshRemote
    /\ service \in BOOLEAN
    /\ folder_id = "None"
    /\ current_iteration = get_next_iteration_number(disk, TRUE)
    /\ start = get_next_iteration_number(disk, TRUE)
    /\ boot = BootKind(disk, TRUE)
    /\ nsucc = 0
    /\ resp = NoResponse
    /\ last = NoRequest
    /\ handled = 0
    /\ restarts = 0
    /\ pc = IdlePc
    /\ loc = IdleLoc
    /\ inp = <<>>
    /\ out = [done |-> FALSE, stocks |-> <<>>]

concFrame == <<resp, last, handled, restarts, start, nsucc, boot, inp, out>>

Goto(r, label) == pc' = [pc EXCEPT ![r] = label]

\* line 272: the except clause ends the request with an error result
Fail(r) ==
    /\ Goto(r, "done")
    /\ loc' = [loc EXCEPT ![r].status = "error"]

\* lines 159-165: the symbols are extracted, add_stocks_to_excel is entered
Receive(r) ==
    /\ pc[r] = "idle"
    /\ \E id \in ConcIds :
          loc' = [loc EXCEPT ![r].payload = id,
                             ![r].stocks = ExtractedStocks[id]]
    /\ Goto(r, "rows")
    /\ UNCHANGED <<disk, current_iteration, service, folder_id, remote,
                   concFrame>>

\* line 226: the rows read the counter
ReadForRows(r) ==
    /\ pc[r] = "rows"
    /\ loc' = [loc EXCEPT ![r].it = current_iteration]
    /\ Goto(r, "exists")
    /\ UNCHANGED <<disk, current_iteration, service, folder_id, remote,
                   concFrame>>

\* line 234
CheckExists(r) ==
    /\ pc[r] = "exists"
    /\ Goto(r, IF disk.exists THEN "load" ELSE "create")
    /\ UNCHANGED <<disk, current_iteration, service, folder_id, remote, loc,
                   concFrame>>

\* lines 236-246: the baseline workbook is built and saved
CreateFile(r) ==
    /\ pc[r] = "create"
    /\ \E outcome \in SaveOutcomes :
          /\ disk' = SaveFile(disk, NewWorkbook, outcome)
          /\ IF outcome = "ok"
             THEN /\ loc' = [loc EXCEPT ![r].wb = NewWorkbook]
                  /\ Goto(r, "name")
             ELSE Fail(r)
    /\ UNCHANGED <<current_iteration, service, folder_id, remote, concFrame>>

\* line 248
LoadFile(r) ==
    /\ pc[r] = "load"
    /\ \E load_ok \in BOOLEAN :
          IF LoadRaises(disk, load_ok)
          THEN Fail(r)
          ELSE /\ loc' = [loc EXCEPT ![r].wb = disk.sheets]
               /\ Goto(r, "name")
    /\ UNCHANGED <<disk, current_iteration, service, folder_id, remote,
                   concFrame>>

\* lines 249-255: the counter is read again for the sheet name
NameSheet(r) ==
    /\ pc[r] = "name"
    /\ loc' = [loc EXCEPT
                 ![r].sheet = current_iteration,
                 ![r].wb = WriteIterationSheet(loc[r].wb, current_iteration,
                              BuildRows(loc[r].stocks,
                                        ParsedPrices[loc[r].payload],
                                        loc[r].it))]
    /\ Goto(r, "save")
    /\ UNCHANGED <<disk, current_iteration, service, folder_id, remote,
                   concFrame>>

\* line 256
SaveSheet(r) ==
    /\ pc[r] = "save"
    /\ \E outcome \in SaveOutcomes :
          /\ disk' = SaveFile(disk, loc[r].wb, outcome)
          /\ IF outcome = "ok"
             THEN Goto(r, "upload") /\ UNCHANGED loc
             ELSE Fail(r)
    /\ UNCHANGED <<current_iteration, service, folder_id, remote, concFrame>>

\* lines 259-260
Upload(r) ==
    /\ pc[r] = "upload"
    /\ IF service
       THEN \E folder_fail \in {"none", "list", "create"},
               file_fail \in {"none", "list", "write"} :
               \E up \in {upload_file(service, folder_id, remote,
                                      folder_fail, file_fail)} :
                   /\ folder_id' = up.folder_id
                   /\ remote' = up.remote
                   /\ IF up.raised THEN Fail(r)
                      ELSE Goto(r, "incr_read") /\ UNCHANGED loc
       ELSE /\ Goto(r, "incr_read")
            /\ UNCHANGED <<folder_id, remote, loc>>
    /\ UNCHANGED <<disk, current_iteration, service, concFrame>>

\* line 262, the read of self.current_iteration += 1
IncrementRead(r) ==
    /\ pc[r] = "incr_read"
    /\ loc' = [loc EXCEPT ![r].tmp = current_iteration]
    /\ Goto(r, "incr_write")
    /\ UNCHANGED <<disk, current_iteration, service, folder_id, remote,
                   concFrame>>

\* line 262, the write of self.current_iteration += 1
IncrementWrite(r) ==
    /\ pc[r] = "incr_write"
    /\ current_iteration' = Increment(loc[r].tmp)
    /\ Goto(r, "return")
    /\ UNCHANGED <<disk, service, folder_id, remote, loc, concFrame>>

\* lines 264-269: the result reads the counter once more
Return(r) ==
    /\ pc[r] = "return"
    /\ loc' = [loc EXCEPT ![r].status = "success",
                          ![r].iteration = ResultIteration(current_iteration)]
    /\ Goto(r, "done")
    /\ UNCHANGED <<disk, current_iteration, service, folder_id, remote,
                   concFrame>>

NextConc ==
    \E r \in Reqs :
        \/ Receive(r)
        \/ ReadForRows(r)
        \/ CheckExists(r)
        \/ CreateFile(r)
        \/ LoadFile(r)
        \/ NameSheet(r)
        \/ SaveSheet(r)
        \/ Upload(r)
        \/ IncrementRead(r)
        \/ IncrementWrite(r)
        \/ Return(r)

SpecConc == InitConc /\ [][NextConc]_vars

(***************************************************************************)
(* What the claims speak of.                                               *)
(***************************************************************************)
NamesOf(d) == sheetnames(d.sheets)

\* the positions of the sheets of d called name
SheetsNamed(d, name) == {i \in 1..Len(d.sheets) : d.sheets[i].name = name}

\* the sheets of d not called name, in order
OtherSheets(d, name) == SelectSeq(d.sheets, LAMBDA sh : sh.name # name)

\* the sheets of d that an alert wrote
IterationSheets(d) ==
    SelectSeq(d.sheets, LAMBDA sh : IsIterationSheet(sh.name))

\* the sheet called Iteration_n holds the header row and one row per symbol
HoldsAlert(d, n, stocks) ==
    \E i \in SheetsNamed(d, IterationName(n)) :
        LET sh == d.sheets[i]
        IN  /\ sh.header = RowHeaders
            /\ Len(sh.rows) = Len(stocks)
            /\ \A k \in 1..Len(stocks) :
                   /\ sh.rows[k].Sr_No = k
                   /\ sh.rows[k].Stock_Symbol = stocks[k]
                   /\ sh.rows[k].Iteration = n

\* the highest n of 1..99 with a sheet called Iteration_n, 0 when there is none
HighestWritten(d) ==
    LET S == {n \in 1..99 :
                \E i \in 1..Len(d.sheets) : d.sheets[i].name = IterationName(n)}
    IN  IF S = {} THEN 0 ELSE SetMax(S)

SuccessStep == handled' = handled + 1 /\ resp'.status = "success"
RestartStep == restarts' = restarts + 1

\* C1: with requests handled one at a time the counter starts at 1 without a
\* workbook, or one past the highest Iteration_N of the workbook read at
\* startup; the k-th
\* successful alert of the process is answered with iteration start+k-1 and
\* leaves sheet Iteration_(start+k-1); an alert answered with an error leaves
\* the counter as it was.
C1_IterationPerSuccess ==
    /\ current_iteration = start + nsucc
    /\ boot = "nofile" => start = 1
    /\ (boot = "loaded" /\ nsucc = 0 /\ ~disk.corrupt)
          => start = HighestWritten(disk) + 1
    /\ resp.status = "success"
          => /\ nsucc >= 1
             /\ resp.iteration = start + nsucc - 1
             /\ HoldsAlert(disk, start + nsucc - 1, resp.stocks)
    /\ resp.status = "error" => current_iteration = last.before

C1_Witness ==
    /\ start = 3
    /\ nsucc = 2
    /\ resp.status = "error"
    /\ last.stage = "save_failed"

\* C2: once the symbols are extracted and the workbook is written, the
\* request succeeds with HTTP 200 and the counter is incremented whatever the
\* uploader does; no exception leaves upload_file or create_or_get_folder.
C2_UploadNeverFailsRequest ==
    /\ last.wrote
          => /\ resp.code = 200
             /\ resp.status = "success"
             /\ current_iteration = last.before + 1
    /\ last.upload # "raised"
    /\ last.escaped = {}

C2_Witness ==
    /\ last.wrote
    /\ last.upload = "failed"
    /\ folder_id = "None"
    /\ resp.code = 200

\* the symbols the payloads of CoreIds carry, read off the payloads by hand
AcceptedSymbols(id) ==
    CASE id = "example" -> <<TCS, INFY>>
      [] id = "list" -> <<TCS, INFY, SBIN>>
      [] OTHER -> <<>>

\* C5: with requests handled one at a time, POST /webhook answers 200 exactly
\* when the alert was saved as a freshly written Iteration sheet, and then
\* carries the cleaned symbols and the N of that sheet; an empty body is
\* answered 400 "No data received" without entering the pipeline; every
\* other handled failure is 400; 500 is only the exception that reaches the
\* endpoint.
C5_StatusCodes ==
    /\ resp.code \in {0, 200, 400, 500}
    /\ resp.code = 200 <=> last.wrote
    /\ resp.code = 200
          => /\ resp.status = "success"
             /\ resp.stocks = AcceptedSymbols(last.payload)
             /\ resp.stocks # <<>>
             /\ resp.iteration = last.before
             /\ disk.exists /\ ~disk.corrupt
             /\ disk.sheets[Len(disk.sheets)].name
                    = IterationName(resp.iteration)
             /\ HoldsAlert(disk, resp.iteration, resp.stocks)
    /\ last.body = "empty"
          => /\ resp.code = 400
             /\ resp.status = "error"
             /\ resp.message = "No data received"
             /\ last.stage = "no_data"
             /\ current_iteration = last.before
    /\ last.stage \in {"no_stocks", "create_failed", "load_failed",
                       "save_failed"}
          => resp.code = 400 /\ resp.status = "error"
    /\ resp.code = 500 <=> last.stage = "escaped"

C5_Witness ==
    /\ resp.code = 200
    /\ resp.iteration = 4
    /\ last.upload = "uploaded"
    /\ last.payload = "list"

UniqueSheetNames ==
    \A i, j \in 1..Len(disk.sheets) :
        disk.sheets[i].name = disk.sheets[j].name => i = j

\* C8: no workbook holds two sheets of one name; a successful write under
\* counter value N leaves exactly one sheet Iteration_N, holding the header
\* and the rows of this alert only, and leaves every other sheet as it was.
C8_ReplacesSheet ==
    /\ []UniqueSheetNames
    /\ [][SuccessStep =>
            /\ Cardinality(SheetsNamed(disk',
                              IterationName(current_iteration))) = 1
            /\ HoldsAlert(disk', current_iteration, resp'.stocks)
            /\ OtherSheets(disk', IterationName(current_iteration))
                 = IF disk.exists
                   THEN OtherSheets(disk, IterationName(current_iteration))
                   ELSE NewWorkbook]_vars

C8_Witness ==
    /\ last.removed
    /\ resp.status = "success"
    /\ Len(IterationSheets(disk)) = 2
    /\ handled >= 2

\* C10: with one process at a time, across restarts, a successful alert
\* adds exactly one Iteration sheet and leaves the earlier ones in place,
\* and a restart never lowers the counter.
C10_NeverOverwrites ==
    [][/\ SuccessStep
          => /\ Len(IterationSheets(disk')) = Len(IterationSheets(disk)) + 1
             /\ \A i \in 1..Len(disk.sheets) :
                   IsIterationSheet(disk.sheets[i].name)
                      => \E j \in 1..Len(disk'.sheets) :
                            disk'.sheets[j] = disk.sheets[i]
       /\ RestartStep => current_iteration' >= current_iteration]_vars

\* C3: no symbol returned by extract_stocks_from_alert contains "NSE:" or
\* ".NS" or a lower-case letter.
C3_MarkersRemoved ==
    out.done =>
        \A k \in 1..Len(out.stocks) :
            /\ ~Contains(out.stocks[k], NSE_PREFIX)
            /\ ~Contains(out.stocks[k], NS_SUFFIX)
            /\ \A i \in 1..Len(out.stocks[k]) : ~IsLower(out.stocks[k][i])

AcceptedShape(alert) == alert.dict /\ alert.stocks.t \in {"str", "list"}

\* C4: a payload whose stocks field is neither a string nor a list (or is
\* missing, or that is no object) is answered with the handled error
\* "No stocks found in alert", with no workbook write and no counter change.
C4_OtherShapesRejected ==
    (last.body = "json" /\ ~AcceptedShape(Payload(last.payload)))
        => /\ resp.status = "error"
           /\ resp.message = "No stocks found in alert"
           /\ last.stage = "no_stocks"
           /\ ~last.wrote
           /\ current_iteration = last.before

\* the symbols and the trigger prices the payloads carry, read off by hand
HandSymbols(id) ==
    CASE id \in {"example", "badprice"} -> <<TCS, INFY>>
      [] id = "list" -> <<TCS, INFY, SBIN>>
      [] id \in {"long", "pricelist", "map"} -> <<TCS>>
      [] OTHER -> <<>>
HandPrices(id) ==
    CASE id \in {"example", "list"} -> <<3500, 1500>>
      [] id = "long" -> <<7, 9, 11>>
      [] OTHER -> <<>>

\* C6: the row of the symbol at position i of the cleaned list carries the
\* i-th entry of the parsed trigger_prices list when there is one, else 0;
\* the lists need not be equally long, a discarded symbol shifts the later
\* prices, and one unparsable entry makes every price 0.
C6_PositionalPrices ==
    resp.status = "success" =>
        /\ resp.stocks = HandSymbols(last.payload)
        /\ \E i \in SheetsNamed(disk, IterationName(resp.iteration)) :
              LET rows == disk.sheets[i].rows
                  prices == HandPrices(last.payload)
              IN  /\ Len(rows) = Len(resp.stocks)
                  /\ \A k \in 1..Len(rows) :
                        /\ rows[k].Stock_Symbol = resp.stocks[k]
                        /\ rows[k].Trigger_Price
                             = IF k <= Len(prices) THEN prices[k] ELSE 0

C6_Witness ==
    /\ resp.status = "success"
    /\ last.payload = "example"
    /\ resp.stocks = <<TCS, INFY>>
    /\ \E i \in SheetsNamed(disk, IterationName(resp.iteration)) :
          /\ disk.sheets[i].rows[1].Trigger_Price = 3500
          /\ disk.sheets[i].rows[2].Trigger_Price = 1500

\* the numbers n with a sheet called Iteration_n
ExactNumbers(d) ==
    {n \in (0 - 9)..99 :
        \E i \in 1..Len(d.sheets) : d.sheets[i].name = IterationName(n)}

\* the numbers n with a sheet called Iteration_n or Iteration_n_<more>
LeadingNumbers(d) ==
    {n \in (0 - 9)..99 :
        \E i \in 1..Len(d.sheets) :
            \/ d.sheets[i].name = IterationName(n)
            \/ StartsWith(d.sheets[i].name, IterationName(n) \o <<"_">>)}

HasNamed(d, name) == \E i \in 1..Len(d.sheets) : d.sheets[i].name = name

AllDone == \A r \in Reqs : pc[r] = "done"
Succeeded == {r \in Reqs : loc[r].status = "success"}

\* the Iteration sheets the file gained since the process started
NewSheets == Len(IterationSheets(disk)) - (start - 1)

HasSheet(wb, n) == \E i \in 1..Len(wb) : wb[i].name = IterationName(n)

\* C9: interleaved requests are not coordinated.  Whatever the interleaving,
\* when both requests are over the counter has moved by at least one and at
\* most one per success, every success carries a number the counter passed
\* through, the file gained at most one Iteration sheet per success, and it
\* gained fewer only because both wrote one sheet name or because the
\* workbook one of them saved was read before the other's sheet was in the
\* file.  The witness is the lost iteration: two successes with one number
\* and fewer than two new sheets.
C9_UncoordinatedRequests ==
    AllDone =>
        /\ current_iteration >= start + (IF Succeeded = {} THEN 0 ELSE 1)
        /\ current_iteration <= start + Cardinality(Succeeded)
        /\ \A r \in Succeeded :
              /\ loc[r].iteration >= start
              /\ loc[r].iteration <= start + Cardinality(Succeeded) - 1
        /\ (disk.exists /\ ~disk.corrupt)
              => /\ NewSheets <= Cardinality(Succeeded)
                 /\ (Succeeded = Reqs /\ NewSheets < 2)
                       => \/ loc["a"].sheet = loc["b"].sheet
                          \/ ~HasSheet(loc["a"].wb, loc["b"].sheet)
                          \/ ~HasSheet(loc["b"].wb, loc["a"].sheet)

C9_Witness ==
    /\ AllDone
    /\ Succeeded = Reqs
    /\ disk.exists /\ ~disk.corrupt
    /\ NewSheets < 2
    /\ loc["a"].iteration = loc["b"].iteration

====
